---- MODULE Spec2Model ----
(***************************************************************************)
(* Model of the polar record store of nav-polars (src/src/polar.rs) and of *)
(* the `post` route that derives an id before calling create               *)
(* (src/src/api/v1/mod.rs).                                                *)
(*                                                                         *)
(* Strings that the code inspects character by character (ids, labels,     *)
(* file names) are sequences of one-character strings.  Option<T> is a     *)
(* sequence of length 0 (None) or 1 (Some).  A Polar carries the fields    *)
(* the store reads or writes by name (id, polar_id, archived, label); the  *)
(* remaining numeric fields are written and read back by the same derived  *)
(* serde code as label and polar_id and are not modelled separately.       *)
(***************************************************************************)
EXTENDS Integers, Sequences, FiniteSets, TLC

VARIABLES fs, call, result, before, pending, race

vars == <<fs, call, result, before, pending, race>>

\* ------------------------------------------------------------------------
\* Bounds and input sets
\* ------------------------------------------------------------------------

\* polar_id is a u8 in the code; the model draws it from 1..MaxPolarId.
MaxPolarId == 2

None == <<>>
Some(x) == <<x>>

\* The ids requests carry under Spec: two plain ids.
Ids == { <<"a">>, <<"b">> }

\* The labels of request bodies under Spec: one with a path segment and
\* one without separator; `post` derives the ids "a" and "b" from them.
Labels == << <<"f", "/", "a">>, <<"b">> >>

\* The ids and labels under SpecEdge: a plain id and the empty id; an
\* empty label, and a label whose last segment is "a".
EdgeIds == { <<"a">>, <<>> }
EdgeLabels == << <<>>, <<"f", "/", "a">> >>

\* The label and the `archived` field that go with a polar_id in the
\* request bodies of the model.
LabelOf(L, p) == L[((p - 1) % Len(L)) + 1]
ArchivedOf(p) == (p % 2 = 0)

\* The Polar values of request bodies, over ids I and labels L.
Bodies(I, L) ==
    { [id |-> i, polar_id |-> p, archived |-> ArchivedOf(p),
       label |-> LabelOf(L, p)] :
        i \in {None} \cup {Some(x) : x \in I},
        p \in 1..MaxPolarId }

Polars == Bodies(Ids, Labels)
EdgePolars == Bodies(EdgeIds, EdgeLabels)

\* ------------------------------------------------------------------------
\* Strings and paths
\* ------------------------------------------------------------------------

Yaml == <<"y", "a", "m", "l">>

\* format!("{}.yaml", id)
FileName(id) == id \o <<".">> \o Yaml

HasSeparator(name) == \E k \in 1..Len(name) : name[k] = "/"

\* dir.join(name): the directory and the relative name under it.
Join(dir, name) == [dir |-> dir, name |-> name]

\* str::split("/").last(): the part after the last "/", the whole string
\* when there is none; never None, since split yields at least one piece.
RECURSIVE LastSegment(_)
LastSegment(s) ==
    IF s = <<>> THEN <<>>
    ELSE IF s[Len(s)] = "/" THEN <<>>
    ELSE LastSegment(SubSeq(s, 1, Len(s) - 1)) \o <<s[Len(s)]>>

\* Positions of "." in a name.
DotsOf(name) == { k \in 1..Len(name) : name[k] = "." }

Max(S) == CHOOSE m \in S : \A k \in S : k <= m
Min(S) == CHOOSE m \in S : \A k \in S : m <= k

\* Path::extension: None without a ".", None when the only "." is the first
\* character, otherwise the part after the last ".".
Extension(name) ==
    IF DotsOf(name) = {} THEN None
    ELSE IF Max(DotsOf(name)) = 1 THEN None
    ELSE Some(SubSeq(name, Max(DotsOf(name)) + 1, Len(name)))

\* Path::file_prefix: the part before the first "." that is not the first
\* character, the whole name when there is none.
FilePrefix(name) ==
    IF DotsOf(name) \ {1} = {} THEN name
    ELSE SubSeq(name, 1, Min(DotsOf(name) \ {1}) - 1)

\* ------------------------------------------------------------------------
\* Codec (serde derive on Polar)
\* ------------------------------------------------------------------------

\* serde_yaml::to_writer: `archived` is skip_serializing, polar_id is
\* written under the key "_id", id is written as given.
Serialize(polar) ==
    [id |-> polar.id, _id |-> polar.polar_id, label |-> polar.label]

\* serde_yaml::from_reader succeeds when every field but the optional
\* `id` is there.
Decodes(content) == {"_id", "label"} \subseteq DOMAIN content

\* serde_yaml::from_reader: `archived` takes its default, a document
\* without `id` gives None.
Deserialize(content) ==
    [id |-> IF "id" \in DOMAIN content THEN content.id ELSE None,
     polar_id |-> content._id, archived |-> FALSE,
     label |-> content.label]

\* ------------------------------------------------------------------------
\* File system: each directory maps the names of its files to their content
\* ------------------------------------------------------------------------

EmptyDir == [n \in {} |-> None]

\* Path::exists.  A name with a separator points into a sub-directory;
\* the service creates none, so nothing exists there.
Exists(f, path) ==
    /\ ~HasSeparator(path.name)
    /\ path.name \in DOMAIN f[path.dir]

ReadFile(f, path) == f[path.dir][path.name]

WriteFile(f, path, content) ==
    [f EXCEPT ![path.dir] =
        [n \in (DOMAIN @) \cup {path.name} |->
            IF n = path.name THEN content ELSE @[n]]]

Unlink(f, path) ==
    [f EXCEPT ![path.dir] = [n \in (DOMAIN @) \ {path.name} |-> @[n]]]

\* Results of store operations.
Ok == [kind |-> "Ok"]
IoError == [kind |-> "Err", err |-> "Io"]
\* The handler's task aborts: Result::unwrap on an Err.
Panic == [kind |-> "Panic"]
DecodeError == [kind |-> "Err", err |-> "Decode"]
AlreadyExists(id) == [kind |-> "Err", err |-> "AlreadyExists", id |-> id]
NotFound(id) == [kind |-> "Err", err |-> "NotFound", id |-> id]
IdIsMandatory == [kind |-> "Err", err |-> "IdIsMandatory"]
Found(polar) == [kind |-> "Some", polar |-> polar]
Missing == [kind |-> "None"]
Listed(polars) == [kind |-> "List", polars |-> polars]

Outcome(res, f) == [result |-> res, fs |-> f]

\* fs::remove_file
remove_file(f, path) ==
    IF Exists(f, path) THEN Outcome(Ok, Unlink(f, path))
    ELSE Outcome(IoError, f)

\* fs::rename wrapped by PolarService::rename: replaces an existing target.
rename(f, from, to) ==
    IF Exists(f, from) /\ ~HasSeparator(to.name)
    THEN Outcome(Ok, Unlink(WriteFile(f, to, ReadFile(f, from)), from))
    ELSE Outcome(IoError, f)

\* PolarService::save_polar: create or truncate, then write the document.
\* save_polar with a plausible slip: the file is opened with create_new, so
\* an existing file is an error.
save_polar_create_new(f, path, polar) ==
    IF HasSeparator(path.name) \/ Exists(f, path) THEN Outcome(IoError, f)
    ELSE Outcome(Ok, WriteFile(f, path, Serialize(polar)))

\* PolarService::save_polar
save_polar(f, path, polar) ==
    IF HasSeparator(path.name) THEN Outcome(IoError, f)
    ELSE Outcome(Ok, WriteFile(f, path, Serialize(polar)))

\* ------------------------------------------------------------------------
\* PolarService
\* ------------------------------------------------------------------------

PolarsPath(id) == Join("polars_dir", FileName(id))
ArchivedPath(id) == Join("archived_dir", FileName(id))

\* The directory list scans and the flag it stamps on each record.
ListDir(archived) ==
    IF archived = Some(TRUE) THEN [dir |-> "archived_dir", archived |-> TRUE]
    ELSE [dir |-> "polars_dir", archived |-> FALSE]

\* The entries list decodes: regular files whose extension is "yaml".
YamlEntries(f, dir) == { n \in DOMAIN f[dir] : Extension(n) = Some(Yaml) }

\* read_dir yields the entries in an unspecified order: every order.
Orders(S) ==
    { o \in [1..Cardinality(S) -> S] :
        \A j, k \in 1..Cardinality(S) : j # k => o[j] # o[k] }

\* The record list builds for one entry.
ListEntry(f, dir, name, archived) ==
    [Deserialize(f[dir][name]) EXCEPT
        !.id = Some(FilePrefix(name)), !.archived = archived]

\* list with a plausible slip: the flag is ignored and the active directory
\* is always scanned.
list_ignoring_flag(f, archived) ==
    { Listed([k \in 1..Len(o) |-> ListEntry(f, "polars_dir", o[k], FALSE)]) :
        o \in { SelectSeq(e, LAMBDA n : Decodes(f["polars_dir"][n])) :
                    e \in Orders(YamlEntries(f, "polars_dir")) } }

\* list with a plausible slip: a document that fails to decode ends the
\* listing with its error.
list_failing_on_decode(f, archived) ==
    LET d == ListDir(archived)
    IN  IF \E n \in YamlEntries(f, d.dir) : ~Decodes(f[d.dir][n])
        THEN {DecodeError}
        ELSE { Listed([k \in 1..Len(o) |-> ListEntry(f, d.dir, o[k], d.archived)]) :
                o \in Orders(YamlEntries(f, d.dir)) }

\* PolarService::list: the results it can return, one per entry order;
\* an entry that fails to decode is logged and left out.
list(f, archived) ==
    LET d == ListDir(archived)
    IN  { Listed([k \in 1..Len(o) |-> ListEntry(f, d.dir, o[k], d.archived)]) :
            o \in { SelectSeq(e, LAMBDA n : Decodes(f[d.dir][n])) :
                        e \in Orders(YamlEntries(f, d.dir)) } }

\* get with a plausible slip: the archived directory is looked up first.
get_archived_first(f, polar_id) ==
    IF Exists(f, ArchivedPath(polar_id))
    THEN Found([Deserialize(ReadFile(f, ArchivedPath(polar_id))) EXCEPT
                    !.id = Some(polar_id), !.archived = TRUE])
    ELSE IF Exists(f, PolarsPath(polar_id))
    THEN Found([Deserialize(ReadFile(f, PolarsPath(polar_id))) EXCEPT
                    !.id = Some(polar_id), !.archived = FALSE])
    ELSE Missing

\* The tail of get with a plausible slip: an id embedded in the file is
\* kept.
GetFrom_trusting_embedded_id(f, path, polar_id, archived) ==
    IF ~Decodes(ReadFile(f, path)) THEN DecodeError
    ELSE LET r == Deserialize(ReadFile(f, path))
         IN  Found([r EXCEPT !.id = IF r.id = None THEN Some(polar_id) ELSE r.id,
                             !.archived = archived])

\* The tail of get: decode the file found, stamp id and archived.
GetFrom(f, path, polar_id, archived) ==
    IF ~Decodes(ReadFile(f, path)) THEN DecodeError
    ELSE Found([Deserialize(ReadFile(f, path)) EXCEPT
                    !.id = Some(polar_id), !.archived = archived])

\* PolarService::get
get(f, polar_id) ==
    IF Exists(f, PolarsPath(polar_id))
    THEN GetFrom(f, PolarsPath(polar_id), polar_id, FALSE)
    ELSE IF Exists(f, ArchivedPath(polar_id))
    THEN GetFrom(f, ArchivedPath(polar_id), polar_id, TRUE)
    ELSE Missing

\* Iterator::find on a list result: the first record with that polar_id.
FindFirst(l, polar_id) ==
    LET hits == { k \in 1..Len(l.polars) : l.polars[k].polar_id = polar_id }
    IN  IF hits = {} THEN Missing ELSE Found(l.polars[Min(hits)])

\* PolarService::find_by_polar_id: the active list first, then the
\* archived one; one result per pair of entry orders.
find_by_polar_id(f, polar_id) ==
    { IF FindFirst(l, polar_id) # Missing THEN FindFirst(l, polar_id)
      ELSE FindFirst(la, polar_id) :
        l \in list(f, None), la \in list(f, Some(TRUE)) }

\* PolarService::get_id
get_id(polar) ==
    IF polar.id = None THEN IdIsMandatory ELSE [kind |-> "Id", id |-> polar.id[1]]

\* create with a plausible slip: no existence check before the write.
create_unchecked(f, polar) ==
    IF get_id(polar).kind = "Err" THEN Outcome(get_id(polar), f)
    ELSE save_polar(f, PolarsPath(get_id(polar).id), polar)

\* PolarService::create
create(f, polar) ==
    LET id == get_id(polar)
    IN  IF id.kind = "Err" THEN Outcome(id, f)
        ELSE IF Exists(f, PolarsPath(id.id)) THEN Outcome(AlreadyExists(id.id), f)
        ELSE save_polar(f, PolarsPath(id.id), polar)

\* update with a plausible slip: a record that is only archived is updated
\* where it lies.
update_archived_fallback(f, polar_id, polar) ==
    IF ~Exists(f, PolarsPath(polar_id))
    THEN IF Exists(f, ArchivedPath(polar_id))
         THEN save_polar(f, ArchivedPath(polar_id), polar)
         ELSE Outcome(NotFound(polar_id), f)
    ELSE IF polar.id # None /\ polar.id[1] # polar_id
    THEN LET removed == remove_file(f, PolarsPath(polar_id))
         IN  IF removed.result # Ok THEN removed
             ELSE save_polar(removed.fs, PolarsPath(polar.id[1]), polar)
    ELSE save_polar(f, PolarsPath(polar_id), polar)

\* update with a plausible slip: a new id that is taken is refused.
update_refusing_collision(f, polar_id, polar) ==
    IF ~Exists(f, PolarsPath(polar_id)) THEN Outcome(NotFound(polar_id), f)
    ELSE IF polar.id # None /\ polar.id[1] # polar_id
    THEN IF Exists(f, PolarsPath(polar.id[1]))
         THEN Outcome(AlreadyExists(polar.id[1]), f)
         ELSE LET removed == remove_file(f, PolarsPath(polar_id))
              IN  IF removed.result # Ok THEN removed
                  ELSE save_polar(removed.fs, PolarsPath(polar.id[1]), polar)
    ELSE save_polar(f, PolarsPath(polar_id), polar)

\* PolarService::update
update(f, polar_id, polar) ==
    IF ~Exists(f, PolarsPath(polar_id)) THEN Outcome(NotFound(polar_id), f)
    ELSE IF polar.id # None /\ polar.id[1] # polar_id
    THEN LET removed == remove_file(f, PolarsPath(polar_id))
         IN  IF removed.result # Ok THEN removed
             ELSE save_polar(removed.fs, PolarsPath(polar.id[1]), polar)
    ELSE save_polar(f, PolarsPath(polar_id), polar)

\* The first half of update with a plausible slip: the old file is left
\* in place until the new one is written.
update_begin_keeping_old(f, polar_id, polar) ==
    IF ~Exists(f, PolarsPath(polar_id))
    THEN [returned |-> TRUE, out |-> Outcome(NotFound(polar_id), f)]
    ELSE IF polar.id # None /\ polar.id[1] # polar_id
    THEN [returned |-> FALSE, fs |-> f, path |-> PolarsPath(polar.id[1])]
    ELSE [returned |-> FALSE, fs |-> f, path |-> PolarsPath(polar_id)]

\* The first half of update: the existence test and, when the id changes,
\* the removal of the old file.  It returns early or leaves the path to
\* write.
update_begin(f, polar_id, polar) ==
    IF ~Exists(f, PolarsPath(polar_id))
    THEN [returned |-> TRUE, out |-> Outcome(NotFound(polar_id), f)]
    ELSE IF polar.id # None /\ polar.id[1] # polar_id
    THEN LET removed == remove_file(f, PolarsPath(polar_id))
         IN  IF removed.result # Ok THEN [returned |-> TRUE, out |-> removed]
             ELSE [returned |-> FALSE, fs |-> removed.fs,
                   path |-> PolarsPath(polar.id[1])]
    ELSE [returned |-> FALSE, fs |-> f, path |-> PolarsPath(polar_id)]

\* PolarService::delete
delete(f, polar_id) ==
    IF Exists(f, PolarsPath(polar_id)) THEN remove_file(f, PolarsPath(polar_id))
    ELSE IF Exists(f, ArchivedPath(polar_id))
    THEN remove_file(f, ArchivedPath(polar_id))
    ELSE Outcome(NotFound(polar_id), f)

\* PolarService::archive
archive(f, polar_id) ==
    IF ~Exists(f, PolarsPath(polar_id)) THEN Outcome(NotFound(polar_id), f)
    ELSE rename(f, PolarsPath(polar_id), ArchivedPath(polar_id))

\* restore with a plausible slip: the file is copied, not moved.
restore_by_copy(f, polar_id) ==
    IF ~Exists(f, ArchivedPath(polar_id)) THEN Outcome(NotFound(polar_id), f)
    ELSE IF Exists(f, PolarsPath(polar_id))
    THEN Outcome(AlreadyExists(polar_id), f)
    ELSE Outcome(Ok, WriteFile(f, PolarsPath(polar_id),
                               ReadFile(f, ArchivedPath(polar_id))))

\* restore with a plausible slip: no check for an active file.
restore_unchecked(f, polar_id) ==
    IF ~Exists(f, ArchivedPath(polar_id)) THEN Outcome(NotFound(polar_id), f)
    ELSE rename(f, ArchivedPath(polar_id), PolarsPath(polar_id))

\* PolarService::restore
restore(f, polar_id) ==
    IF ~Exists(f, ArchivedPath(polar_id)) THEN Outcome(NotFound(polar_id), f)
    ELSE IF Exists(f, PolarsPath(polar_id))
    THEN Outcome(AlreadyExists(polar_id), f)
    ELSE rename(f, ArchivedPath(polar_id), PolarsPath(polar_id))

\* ------------------------------------------------------------------------
\* Route POST /polars
\* ------------------------------------------------------------------------

\* The id `post` fills in when the body has none.
DeriveId(polar) ==
    IF polar.id = None
    THEN [polar EXCEPT !.id = Some(LastSegment(polar.label))]
    ELSE polar

StatusOf(res) ==
    IF res = Ok THEN "Created"
    ELSE IF res.err = "AlreadyExists" THEN "Conflict"
    ELSE IF res.err = "IdIsMandatory" THEN "BadRequest"
    ELSE "InternalServerError"

\* api::v1::post: derive the id, create, map the outcome to a status.
post(f, body) ==
    LET o == create(f, DeriveId(body))
    IN  Outcome([kind |-> "Status", status |-> StatusOf(o.result),
                 cause |-> o.result], o.fs)

\* Ord for the characters the model uses, in byte order.
CharRank(c) ==
    CASE c = "." -> 1 [] c = "/" -> 2 [] c = "a" -> 3 [] c = "b" -> 4
      [] c = "f" -> 5 [] c = "l" -> 6 [] c = "m" -> 7 [] c = "x" -> 8
      [] c = "y" -> 9

\* u8::cmp, as -1 (Less), 0 (Equal), 1 (Greater).
NumCmp(m, n) == IF m < n THEN -1 ELSE IF m > n THEN 1 ELSE 0

\* String::cmp: lexicographic by bytes.
RECURSIVE StrCmp(_, _)
StrCmp(s, t) ==
    IF s = <<>> THEN (IF t = <<>> THEN 0 ELSE -1)
    ELSE IF t = <<>> THEN 1
    ELSE IF Head(s) # Head(t) THEN NumCmp(CharRank(Head(s)), CharRank(Head(t)))
    ELSE StrCmp(Tail(s), Tail(t))

\* Option<String>::cmp: None is less than every Some.
OptCmp(x, y) ==
    IF x = None THEN (IF y = None THEN 0 ELSE -1)
    ELSE IF y = None THEN 1
    ELSE StrCmp(x[1], y[1])

\* The Sort form guard: no sort without sort_by; order defaults to Asc.
FromForm(sort_by, order) ==
    IF sort_by = None THEN None
    ELSE Some([sort_by |-> sort_by[1],
               order |-> IF order = None THEN "Asc" ELSE order[1]])

\* The closure with the slip of never reversing an unrecognized key.
Compare_unknown_ascending(sort, a, b) ==
    LET x == IF sort.order = "Desc" THEN b ELSE a
        y == IF sort.order = "Desc" THEN a ELSE b
    IN  CASE sort.sort_by = "id" -> OptCmp(x.id, y.id)
          [] sort.sort_by = "_id" -> NumCmp(x.polar_id, y.polar_id)
          [] OTHER -> OptCmp(a.id, b.id)

\* The closure given to sort_by in the route `list`.
Compare(sort, a, b) ==
    LET x == IF sort.order = "Desc" THEN b ELSE a
        y == IF sort.order = "Desc" THEN a ELSE b
    IN  CASE sort.sort_by = "id" -> OptCmp(x.id, y.id)
          [] sort.sort_by = "_id" -> NumCmp(x.polar_id, y.polar_id)
          [] OTHER -> OptCmp(x.id, y.id)

\* Where a stable sort puts x in the sorted sequence s: behind every
\* element that is not greater than x.
RECURSIVE InsertSorted(_, _, _)
InsertSorted(sort, s, x) ==
    IF s = <<>> THEN <<x>>
    ELSE IF Compare(sort, s[Len(s)], x) <= 0 THEN Append(s, x)
    ELSE Append(InsertSorted(sort, SubSeq(s, 1, Len(s) - 1), x), s[Len(s)])

\* Vec::sort_by: the stable sort of polars under the closure.
RECURSIVE sort_by(_, _)
sort_by(sort, polars) ==
    IF polars = <<>> THEN <<>>
    ELSE InsertSorted(sort, sort_by(sort, SubSeq(polars, 1, Len(polars) - 1)),
                      polars[Len(polars)])

\* What the route answers: the records as JSON.
Json(polars) == [kind |-> "Json", polars |-> polars]

\* The route `list` on one outcome of PolarService::list.
list_route(listed, sort) ==
    IF listed.kind # "List" THEN [kind |-> "Status", status |-> "InternalServerError"]
    ELSE IF sort = None THEN Json(listed.polars)
    ELSE Json(sort_by(sort[1], listed.polars))

\* ------------------------------------------------------------------------
\* State machine
\* ------------------------------------------------------------------------

\* `before` remembers, for one more call, what get returned for an id just
\* before that id was archived (age 0: the archive was the last call;
\* age 1: it was the call before the last one).
NoBefore == [polar_id |-> None, got |-> Missing, age |-> 2]

NextBefore(c, o) ==
    IF c.op = "archive" /\ o.result = Ok
    THEN [polar_id |-> Some(c.polar_id), got |-> get(fs, c.polar_id), age |-> 0]
    ELSE IF before.age = 0 THEN [before EXCEPT !.age = 1]
    ELSE NoBefore

\* The request handlers that can be in flight at once (rocket runs each
\* request as its own task; the service holds no lock).
Threads == {"t1", "t2"}

\* A handler that is not inside a call.
Idle == [op |-> "idle"]

\* `race` remembers what the last completed call met that its result does
\* not tell.
NoRace == "none"

\* What a call running alone can meet: an update whose new id is the id of
\* another active file.
Met(c) ==
    IF /\ c.op = "update"
       /\ c.polar.id \notin {None, Some(c.polar_id)}
       /\ Exists(fs, PolarsPath(c.polar_id))
       /\ Exists(fs, PolarsPath(c.polar.id[1]))
    THEN "collision" ELSE NoRace

\* One call that runs without any other call in between: the file system
\* and the result are the operation's outcome.
Step(c, o) ==
    /\ fs' = o.fs
    /\ call' = c
    /\ result' = o.result
    /\ before' = NextBefore(c, o)
    /\ race' = Met(c)
    /\ UNCHANGED pending

\* A step inside the call of handler t: the call goes on.
Advance(t, p, f) ==
    /\ fs' = f
    /\ pending' = [pending EXCEPT ![t] = p]
    /\ UNCHANGED <<call, result, before, race>>

\* The last step of the call of handler t: the call returns.
Finish(t, c, o, r) ==
    /\ fs' = o.fs
    /\ call' = c
    /\ result' = o.result
    /\ before' = NextBefore(c, o)
    /\ race' = r
    /\ pending' = [pending EXCEPT ![t] = Idle]

\* PolarService::new on two directories that hold no file.
Init ==
    /\ fs = [polars_dir |-> EmptyDir, archived_dir |-> EmptyDir]
    /\ call = [op |-> "new"]
    /\ result = Ok
    /\ before = NoBefore
    /\ pending = [t \in Threads |-> Idle]
    /\ race = NoRace

List ==
    \E a \in {None, Some(FALSE), Some(TRUE)} :
        \E r \in list(fs, a) :
            Step([op |-> "list", archived |-> a], Outcome(r, fs))

Get(I) ==
    \E i \in I :
        Step([op |-> "get", polar_id |-> i], Outcome(get(fs, i), fs))

FindByPolarId ==
    \E p \in 1..MaxPolarId :
        \E r \in find_by_polar_id(fs, p) :
            Step([op |-> "find_by_polar_id", num |-> p], Outcome(r, fs))

Create(P) ==
    \E polar \in P :
        Step([op |-> "create", polar |-> polar], create(fs, polar))

Update(I, P) ==
    \E i \in I, polar \in P :
        Step([op |-> "update", polar_id |-> i, polar |-> polar],
             update(fs, i, polar))

Delete(I) ==
    \E i \in I : Step([op |-> "delete", polar_id |-> i], delete(fs, i))

Archive(I) ==
    \E i \in I : Step([op |-> "archive", polar_id |-> i], archive(fs, i))

Restore(I) ==
    \E i \in I : Step([op |-> "restore", polar_id |-> i], restore(fs, i))

Post(P) ==
    \E body \in P :
        Step([op |-> "post", polar |-> body], post(fs, body))

\* Calls with plain ids.
Next ==
    \/ List
    \/ Get(Ids)
    \/ FindByPolarId
    \/ Create(Polars)
    \/ Update(Ids, Polars)
    \/ Delete(Ids)
    \/ Archive(Ids)
    \/ Restore(Ids)
    \/ Post(Polars)

Spec == Init /\ [][Next]_vars

\* Calls whose ids include the empty id, as derived from an empty label.
NextEdge ==
    \/ List
    \/ Get(EdgeIds)
    \/ FindByPolarId
    \/ Create(EdgePolars)
    \/ Update(EdgeIds, EdgePolars)
    \/ Delete(EdgeIds)
    \/ Archive(EdgeIds)
    \/ Restore(EdgeIds)
    \/ Post(EdgePolars)

SpecEdge == Init /\ [][NextEdge]_vars

\* Documents found in the directories at start-up, not written by the
\* service: one without the required "_id", one that is complete but has
\* no "id", and one that embeds the id b.
SeedDocuments ==
    { [label |-> <<"b">>],
      [_id |-> 1, label |-> <<"b">>],
      [id |-> Some(<<"b">>), _id |-> 2, label |-> <<"f", "/", "a">>] }

\* The directories as PolarService::new can find them: each of the files
\* a.yaml and b.yaml absent or holding one of the documents.
SeedDirs ==
    UNION { [{FileName(i) : i \in I} -> SeedDocuments] : I \in SUBSET Ids }

\* PolarService::new on directories that exist already.
InitFiles ==
    /\ fs \in [polars_dir : SeedDirs, archived_dir : SeedDirs]
    /\ call = [op |-> "new"]
    /\ result = Ok
    /\ before = NoBefore
    /\ pending = [t \in Threads |-> Idle]
    /\ race = NoRace

\* Calls on directories that held files at start-up.
NextFiles ==
    \/ List
    \/ Get(Ids)
    \/ Create(Polars)
    \/ Delete(Ids)

SpecFiles == InitFiles /\ [][NextFiles]_vars

\* The query parameters of GET /polars that select the sort.
SortKeys == {None, Some("id"), Some("_id"), Some("label")}
SortOrders == {None, Some("Asc"), Some("Desc")}

\* GET /polars?archived=..&sort_by=..&order=..
ListRoute ==
    \E a \in {None, Some(TRUE)}, k \in SortKeys, d \in SortOrders :
        \E r \in list(fs, a) :
            Step([op |-> "list_route", archived |-> a, sort |-> FromForm(k, d)],
                 Outcome(list_route(r, FromForm(k, d)), fs))

\* Sorted listings of a store that records enter, leave and move in.
NextSort ==
    \/ ListRoute
    \/ Create(Polars)
    \/ Delete(Ids)
    \/ Archive(Ids)

SpecSort == Init /\ [][NextSort]_vars

\* list, entry by entry, beside other calls.  read_dir has yielded the
\* entries of the directory in some order.
ListScan(t) ==
    /\ pending[t] = Idle
    /\ \E a \in {None, Some(TRUE)} :
        \E e \in Orders(DOMAIN fs[ListDir(a).dir]) :
            Advance(t, [op |-> "list", archived |-> a, todo |-> e,
                        stage |-> "metadata", res |-> <<>>], fs)

\* entry.metadata(), is_file and the extension test for the next entry: an
\* entry whose file is gone, or that is no yaml file, is passed over.
ListMetadata(t) ==
    /\ pending[t].op = "list"
    /\ pending[t].stage = "metadata"
    /\ pending[t].todo # <<>>
    /\ LET p == pending[t]
           n == Head(p.todo)
       IN  IF n \in DOMAIN fs[ListDir(p.archived).dir]
                /\ Extension(n) = Some(Yaml)
           THEN Advance(t, [p EXCEPT !.stage = "open"], fs)
           ELSE Advance(t, [p EXCEPT !.todo = Tail(p.todo)], fs)

\* File::open(entry.path()).unwrap() and the decoding of the entry.
ListOpen(t) ==
    /\ pending[t].op = "list"
    /\ pending[t].stage = "open"
    /\ LET p == pending[t]
           n == Head(p.todo)
           d == ListDir(p.archived)
           c == [op |-> "list", archived |-> p.archived]
           rest == [p EXCEPT !.todo = Tail(p.todo), !.stage = "metadata"]
       IN  IF n \notin DOMAIN fs[d.dir]
           THEN Finish(t, c, Outcome(Panic, fs), "vanished")
           ELSE IF ~Decodes(fs[d.dir][n]) THEN Advance(t, rest, fs)
           ELSE Advance(t, [rest EXCEPT !.res =
                                Append(p.res, ListEntry(fs, d.dir, n, d.archived))],
                        fs)

\* Ok(res) once every entry has been seen.
ListReturn(t) ==
    /\ pending[t].op = "list"
    /\ pending[t].stage = "metadata"
    /\ pending[t].todo = <<>>
    /\ Finish(t, [op |-> "list", archived |-> pending[t].archived],
              Outcome(Listed(pending[t].res), fs), NoRace)

\* One handler lists while other requests create, delete, archive and
\* restore.
NextListRace ==
    \/ ListScan("t1")
    \/ ListMetadata("t1")
    \/ ListOpen("t1")
    \/ ListReturn("t1")
    \/ Create(Polars)
    \/ Delete(Ids)
    \/ Archive(Ids)
    \/ Restore(Ids)

SpecListRace == Init /\ [][NextListRace]_vars

\* create up to its existence test, beside other calls: get_id, the path
\* and path.exists().
CreateCheck(t, P) ==
    /\ pending[t] = Idle
    /\ \E polar \in P :
        LET id == get_id(polar)
            c == [op |-> "create", polar |-> polar]
        IN  IF id.kind = "Err" THEN Finish(t, c, Outcome(id, fs), NoRace)
            ELSE IF Exists(fs, PolarsPath(id.id))
            THEN Finish(t, c, Outcome(AlreadyExists(id.id), fs), NoRace)
            ELSE Advance(t, [op |-> "create", polar |-> polar], fs)

\* create after a passed test: save_polar and the return.
CreateWrite(t) ==
    /\ pending[t].op = "create"
    /\ LET polar == pending[t].polar
           path == PolarsPath(get_id(polar).id)
       IN  Finish(t, [op |-> "create", polar |-> polar],
                  save_polar(fs, path, polar),
                  IF Exists(fs, path) THEN "overwrote" ELSE NoRace)

\* Two handlers create while other requests delete.
NextCreateRace ==
    \/ \E t \in Threads : CreateCheck(t, Polars)
    \/ \E t \in Threads : CreateWrite(t)
    \/ Delete(Ids)

SpecCreateRace == Init /\ [][NextCreateRace]_vars

\* An id no file can be written under: x/a.yaml lies in a directory x
\* that does not exist.
NestedId == <<"x", "/", "a">>

\* The records update is called with beside other calls.
RenamePolars == Bodies(Ids \cup {NestedId}, Labels)

\* update up to the removal of the old file, beside other calls.
UpdateBegin(t, I, P) ==
    /\ pending[t] = Idle
    /\ \E i \in I, polar \in P :
        LET b == update_begin(fs, i, polar)
            c == [op |-> "update", polar_id |-> i, polar |-> polar]
        IN  IF b.returned THEN Finish(t, c, b.out, NoRace)
            ELSE Advance(t, [op |-> "update", polar_id |-> i, polar |-> polar,
                             path |-> b.path], b.fs)

\* update from save_polar to its return.
UpdateWrite(t) ==
    /\ pending[t].op = "update"
    /\ LET p == pending[t]
           o == save_polar(fs, p.path, p.polar)
       IN  Finish(t, [op |-> "update", polar_id |-> p.polar_id, polar |-> p.polar],
                  o,
                  IF o.result # Ok /\ p.path # PolarsPath(p.polar_id)
                  THEN "torn" ELSE NoRace)

\* One handler updates while other requests create and get.
NextUpdateRace ==
    \/ UpdateBegin("t1", Ids, RenamePolars)
    \/ UpdateWrite("t1")
    \/ Create(Polars)
    \/ Get(Ids)

SpecUpdateRace == Init /\ [][NextUpdateRace]_vars

\* ------------------------------------------------------------------------
\* Properties
\* ------------------------------------------------------------------------

AllIds == Ids \cup EdgeIds
AllPolars == Polars \cup EdgePolars

Active(i) == Exists(fs, PolarsPath(i))
Archived(i) == Exists(fs, ArchivedPath(i))

\* C1: in every reachable state no id has a file in both the active and
\* the archived directory.
C1_OneCopyPerId == \A i \in AllIds : ~(Active(i) /\ Archived(i))

\* C2: when create(r) with an explicit id i succeeds (directly or through
\* post), get(i) right after returns r with id = i and archived = false.
C2_CreateThenGet ==
    /\ (call.op = "create" /\ call.polar.id # None /\ result = Ok)
        => get(fs, call.polar.id[1]) = Found([call.polar EXCEPT !.archived = FALSE])
    /\ (call.op = "post" /\ call.polar.id # None /\ result.status = "Created")
        => get(fs, call.polar.id[1]) = Found([call.polar EXCEPT !.archived = FALSE])

\* C2 witness: a create succeeded for a body that says archived = true,
\* while an archived file of the same id exists with another content.
C2_Witness ==
    /\ call.op = "create" /\ result = Ok
    /\ call.polar.id # None /\ call.polar.archived
    /\ Archived(call.polar.id[1])
    /\ ReadFile(fs, ArchivedPath(call.polar.id[1])) # Serialize(call.polar)

\* C3: create(r) with r.id = i while an active file i exists fails with
\* AlreadyExists(i) (post answers Conflict) and changes no file.
C3_CreateExistingFails ==
    [][\A polar \in AllPolars :
        /\ (/\ call' = [op |-> "create", polar |-> polar]
            /\ polar.id # None
            /\ Active(polar.id[1]))
            => (result' = AlreadyExists(polar.id[1]) /\ fs' = fs)
        /\ (/\ call' = [op |-> "post", polar |-> polar]
            /\ polar.id # None
            /\ Active(polar.id[1]))
            => (/\ result'.status = "Conflict"
                /\ result'.cause = AlreadyExists(polar.id[1])
                /\ fs' = fs)]_vars

\* C3 witness: a create was refused with AlreadyExists while the active
\* file holds something else than the refused record.
C3_Witness ==
    /\ call.op = "create" /\ call.polar.id # None
    /\ result = AlreadyExists(call.polar.id[1])
    /\ Active(call.polar.id[1])
    /\ ReadFile(fs, PolarsPath(call.polar.id[1])) # Serialize(call.polar)

\* C4: a create request without id whose label is empty or has no path
\* segment is answered with the validation error and writes no file; and
\* create with an absent id returns IdIsMandatory.
C4_NoDerivableIdRejected ==
    [][\A polar \in AllPolars :
        /\ (/\ call' = [op |-> "post", polar |-> polar]
            /\ polar.id = None
            /\ (polar.label = <<>> \/ ~HasSeparator(polar.label)))
            => (/\ result'.status = "BadRequest"
                /\ result'.cause = IdIsMandatory
                /\ fs' = fs)
        /\ (call' = [op |-> "create", polar |-> polar] /\ polar.id = None)
            => (result' = IdIsMandatory /\ fs' = fs)]_vars

\* C5: when archive(i) succeeds and the restore(i) that follows succeeds,
\* get(i) returns what it returned before the archive, with
\* archived = false, and the archived directory holds no file for i.
C5_ArchiveRestoreRoundTrip ==
    (/\ call.op = "restore" /\ result = Ok
     /\ before.age = 1 /\ before.polar_id = Some(call.polar_id))
    => /\ get(fs, call.polar_id) = before.got
       /\ before.got.kind = "Some"
       /\ before.got.polar.archived = FALSE
       /\ ~Archived(call.polar_id)

\* C5 witness: a restore succeeded right after the archive of the same id.
C5_Witness ==
    /\ call.op = "restore" /\ result = Ok
    /\ before.age = 1 /\ before.polar_id = Some(call.polar_id)
    /\ get(fs, call.polar_id) # Missing

\* The files of a directory other than the file of id i.
Others(f, dir, i) ==
    [n \in (DOMAIN f[dir]) \ {FileName(i)} |-> f[dir][n]]

\* C6: restore(i) fails with NotFound(i) without an archived file i, and
\* with AlreadyExists(i) when an archived and an active file i exist; both
\* leave every file as it was.  Otherwise it moves the archived file to
\* the active directory.
C6_RestoreOutcomes ==
    [][\A i \in AllIds :
        (call' = [op |-> "restore", polar_id |-> i]) =>
            IF ~Archived(i) THEN result' = NotFound(i) /\ fs' = fs
            ELSE IF Active(i) THEN result' = AlreadyExists(i) /\ fs' = fs
            ELSE /\ result' = Ok
                 /\ Exists(fs', PolarsPath(i))
                 /\ ReadFile(fs', PolarsPath(i)) = ReadFile(fs, ArchivedPath(i))
                 /\ ~Exists(fs', ArchivedPath(i))
                 /\ Others(fs', "polars_dir", i) = Others(fs, "polars_dir", i)
                 /\ Others(fs', "archived_dir", i) = Others(fs, "archived_dir", i)]_vars

\* C6 witness: a restore was refused with AlreadyExists while the two
\* copies differ.
C6_Witness ==
    /\ call.op = "restore"
    /\ result = AlreadyExists(call.polar_id)
    /\ Active(call.polar_id) /\ Archived(call.polar_id)
    /\ ReadFile(fs, PolarsPath(call.polar_id))
        # ReadFile(fs, ArchivedPath(call.polar_id))

\* C7: when delete(i) succeeds, get(i) right after returns not-found.
C7_DeleteThenGetMissing ==
    (call.op = "delete" /\ result = Ok) => get(fs, call.polar_id) = Missing

IsPrefix(s, t) == Len(s) <= Len(t) /\ SubSeq(t, 1, Len(s)) = s

\* The record a file holds, as the store hands it out with id and archived.
Held(content, id, archived) ==
    [id |-> id, polar_id |-> content._id, archived |-> archived,
     label |-> content.label]

\* C8: list(absent) and list(false) return only records of files of the
\* active directory, with archived = false; list(true) only records of
\* files of the archived directory, with archived = true; with both
\* directories empty the result is empty.
C8_ListScansOneDirectory ==
    call.op = "list" =>
        LET dir == IF call.archived = Some(TRUE)
                   THEN fs.archived_dir ELSE fs.polars_dir
        IN  /\ \A k \in 1..Len(result.polars) :
                /\ result.polars[k].archived = (call.archived = Some(TRUE))
                /\ \E n \in DOMAIN dir :
                    /\ result.polars[k].id # None
                    /\ IsPrefix(result.polars[k].id[1], n)
                    /\ result.polars[k] =
                        Held(dir[n], result.polars[k].id, result.polars[k].archived)
            /\ (DOMAIN fs.polars_dir = {} /\ DOMAIN fs.archived_dir = {})
                => result.polars = <<>>

\* C8 witness: list(true) returned a record while the active directory
\* holds a file of another id.
C8_Witness ==
    /\ call.op = "list" /\ call.archived = Some(TRUE)
    /\ Len(result.polars) >= 1
    /\ \E n \in DOMAIN fs.polars_dir : n \notin DOMAIN fs.archived_dir

\* The files of a directory whose record has polar_id p.
WithPolarId(dir, p) == { n \in DOMAIN dir : dir[n]._id = p }

\* C9: findBySecondaryId(p) returns an active record with polarId = p
\* whenever an active record has it, an archived one only when no active
\* record has it, and not-found only when no record of either directory
\* has it.
C9_FindPrefersActive ==
    call.op = "find_by_polar_id" =>
        LET act == WithPolarId(fs.polars_dir, call.num)
            arc == WithPolarId(fs.archived_dir, call.num)
        IN  /\ act # {} =>
                /\ result.kind = "Some"
                /\ result.polar.polar_id = call.num
                /\ result.polar.archived = FALSE
            /\ (act = {} /\ arc # {}) =>
                /\ result.kind = "Some"
                /\ result.polar.polar_id = call.num
                /\ result.polar.archived = TRUE
            /\ result = Missing => (act = {} /\ arc = {})

\* C10: when update(i, r) succeeds with r.id = j # i, the active directory
\* has no file i and a file j holding r, get(i) is not-found and get(j) is
\* r with archived = false; with r.id absent or equal to i, the active
\* file i is overwritten with r and no other file changes.
C10_UpdateRenames ==
    [][\A i \in AllIds, r \in AllPolars :
        (call' = [op |-> "update", polar_id |-> i, polar |-> r] /\ result' = Ok)
        => IF r.id # None /\ r.id[1] # i
           THEN /\ ~Exists(fs', PolarsPath(i))
                /\ Exists(fs', PolarsPath(r.id[1]))
                /\ ReadFile(fs', PolarsPath(r.id[1])) = Serialize(r)
                /\ get(fs', i) = Missing
                /\ get(fs', r.id[1]) = Found([r EXCEPT !.archived = FALSE])
           ELSE /\ Exists(fs', PolarsPath(i))
                /\ ReadFile(fs', PolarsPath(i)) = Serialize(r)
                /\ Others(fs', "polars_dir", i) = Others(fs, "polars_dir", i)
                /\ fs'.archived_dir = fs.archived_dir]_vars

\* C11: every record list returns carries the id of its file, so that
\* get of that id returns the same record, and every active record is
\* returned by list(false); for every id, the empty id included.
C11_ListIdsAreFileIds ==
    call.op = "list" =>
        /\ \A k \in 1..Len(result.polars) :
            /\ result.polars[k].id # None
            /\ get(fs, result.polars[k].id[1]) = Found(result.polars[k])
        /\ call.archived # Some(TRUE) =>
            \A i \in AllIds :
                Active(i) =>
                    \E k \in 1..Len(result.polars) :
                        Found(result.polars[k]) = get(fs, i)

\* The entries of a directory that list reads and that decode.
Decodable(dir) == { n \in DOMAIN dir : Extension(n) = Some(Yaml) /\ Decodes(dir[n]) }

\* C12: with files that fail to decode in the scanned directory, list
\* succeeds and returns exactly the records of the files that decode.
C12_ListSkipsMalformed ==
    call.op = "list" =>
        LET dir == IF call.archived = Some(TRUE)
                   THEN fs.archived_dir ELSE fs.polars_dir
            flag == (call.archived = Some(TRUE))
        IN  /\ result.kind = "List"
            /\ Len(result.polars) = Cardinality(Decodable(dir))
            /\ \A n \in Decodable(dir) :
                \E k \in 1..Len(result.polars) :
                    result.polars[k] = Held(dir[n], Some(FilePrefix(n)), flag)
            /\ \A k \in 1..Len(result.polars) :
                \E n \in Decodable(dir) :
                    result.polars[k] = Held(dir[n], Some(FilePrefix(n)), flag)

\* C12 witness: list returned a record while another file of the scanned
\* directory does not decode.
C12_Witness ==
    /\ call.op = "list" /\ call.archived # Some(TRUE)
    /\ result.kind = "List" /\ Len(result.polars) >= 1
    /\ \E n \in DOMAIN fs.polars_dir : ~Decodes(fs.polars_dir[n])

\* C13: no store operation ends in a panic; a file that list saw in its
\* scan and cannot open any more is skipped or reported as a failure.
C13_NoPanic == result.kind # "Panic"

\* The comparison of two records by the field a sort key names.
ByKey(key, a, b) ==
    IF key = "_id" THEN NumCmp(a.polar_id, b.polar_id) ELSE OptCmp(a.id, b.id)

\* s is in order under key: never decreasing for Asc, never increasing for
\* Desc.
InOrder(s, key, order) ==
    \A k \in 1..(Len(s) - 1) :
        IF order = "Desc" THEN ByKey(key, s[k], s[k + 1]) >= 0
        ELSE ByKey(key, s[k], s[k + 1]) <= 0

\* The sorted answer holds the records one listing of the store returns.
SameRecords(s, a) ==
    \E r \in list(fs, a) :
        /\ Len(r.polars) = Len(s)
        /\ {r.polars[k] : k \in 1..Len(s)} = {s[k] : k \in 1..Len(s)}

\* C14 as stated: a sort key other than "id" and "_id" orders the answer
\* by id ascending whatever the direction; "id" and "_id" order it by
\* that field in the requested direction.
C14_UnknownKeyAscending ==
    (call.op = "list_route" /\ call.sort # None) =>
        /\ result.kind = "Json"
        /\ IF call.sort[1].sort_by \in {"id", "_id"}
           THEN InOrder(result.polars, call.sort[1].sort_by, call.sort[1].order)
           ELSE InOrder(result.polars, "id", "Asc")

\* C14 amended: the answer is ordered in the requested direction (ascending
\* by default), by polar_id for the key "_id" and by id for every other
\* key, and holds the records of the listing.
C14_SortedAsRequested ==
    (call.op = "list_route" /\ call.sort # None) =>
        /\ result.kind = "Json"
        /\ SameRecords(result.polars, call.archived)
        /\ InOrder(result.polars,
                   IF call.sort[1].sort_by = "_id" THEN "_id" ELSE "id",
                   call.sort[1].order)

\* C14 witness: two records sorted descending under an unrecognized key.
C14_Witness ==
    /\ call.op = "list_route"
    /\ call.sort = Some([sort_by |-> "label", order |-> "Desc"])
    /\ result.kind = "Json"
    /\ Len(result.polars) = 2
    /\ result.polars[1].id = Some(<<"b">>)

\* What get answers from one file: its record under the id asked for and
\* the flag of its directory, or the decode failure.
Answer(content, i, archived) ==
    IF Decodes(content) THEN Found(Held(content, Some(i), archived))
    ELSE DecodeError

\* C15: get(i) returns the record of the active file i with archived =
\* false if that file exists, an archived copy or not; else the record of
\* the archived file i with archived = true; else the not-found signal.
\* The returned id is i whatever the file embeds, and no file changes.
\* (A file that holds no record gives the decode failure.)
C15_GetLooksActiveFirst ==
    [][call'.op = "get" =>
        LET i == call'.polar_id
        IN  /\ fs' = fs
            /\ result' =
                IF FileName(i) \in DOMAIN fs.polars_dir
                THEN Answer(fs.polars_dir[FileName(i)], i, FALSE)
                ELSE IF FileName(i) \in DOMAIN fs.archived_dir
                THEN Answer(fs.archived_dir[FileName(i)], i, TRUE)
                ELSE Missing]_vars

\* C15 witness: get answered from the active file of an id that also has
\* an archived copy, and the active file embeds another id.
C15_Witness ==
    /\ call.op = "get"
    /\ Active(call.polar_id) /\ Archived(call.polar_id)
    /\ fs.polars_dir[FileName(call.polar_id)] # fs.archived_dir[FileName(call.polar_id)]
    /\ "id" \in DOMAIN fs.polars_dir[FileName(call.polar_id)]
    /\ fs.polars_dir[FileName(call.polar_id)].id \notin {None, Some(call.polar_id)}
    /\ result.kind = "Some" /\ result.polar.archived = FALSE
    /\ result.polar.id = Some(call.polar_id)

\* The contents the files of both directories hold.
Contents(f) ==
    {f.polars_dir[n] : n \in DOMAIN f.polars_dir}
        \cup {f.archived_dir[n] : n \in DOMAIN f.archived_dir}

\* C16: archive(i) fails with NotFound(i) when no active file i exists;
\* otherwise it succeeds, the active file i is gone, the archived file i
\* holds what the active file held, the files of every other id are
\* unchanged, and no content stored before the call is lost.
C16_ArchiveMovesOneFile ==
    [][call'.op = "archive" =>
        LET i == call'.polar_id
        IN  IF ~Active(i) THEN result' = NotFound(i) /\ fs' = fs
            ELSE /\ result' = Ok
                 /\ FileName(i) \notin DOMAIN fs'.polars_dir
                 /\ FileName(i) \in DOMAIN fs'.archived_dir
                 /\ fs'.archived_dir[FileName(i)] = fs.polars_dir[FileName(i)]
                 /\ Others(fs', "polars_dir", i) = Others(fs, "polars_dir", i)
                 /\ Others(fs', "archived_dir", i) = Others(fs, "archived_dir", i)
                 /\ Contents(fs) \subseteq Contents(fs')]_vars

\* C17: update(i, r) with r.id = j, j # i, and active files i and j
\* succeeds without a collision check: file i is removed, file j holds r
\* in place of what it held, one active file fewer remains, and nothing
\* else changes.
C17_UpdateOverwritesOther ==
    [][(/\ call'.op = "update"
        /\ call'.polar.id \notin {None, Some(call'.polar_id)}
        /\ Active(call'.polar_id)
        /\ Exists(fs, PolarsPath(call'.polar.id[1]))) =>
        LET i == call'.polar_id
            j == call'.polar.id[1]
        IN  /\ result' = Ok
            /\ DOMAIN fs'.polars_dir = (DOMAIN fs.polars_dir) \ {FileName(i)}
            /\ Cardinality(DOMAIN fs'.polars_dir)
                    = Cardinality(DOMAIN fs.polars_dir) - 1
            /\ fs'.polars_dir[FileName(j)] = Serialize(call'.polar)
            /\ \A n \in (DOMAIN fs'.polars_dir) \ {FileName(j)} :
                    fs'.polars_dir[n] = fs.polars_dir[n]
            /\ fs'.archived_dir = fs.archived_dir]_vars

\* C17 witness: an update onto the id of another active file returned Ok
\* and only the file of the new id is left of the two.
C17_Witness ==
    /\ call.op = "update"
    /\ race = "collision"
    /\ result = Ok
    /\ ~Active(call.polar_id)
    /\ Active(call.polar.id[1])

\* The domain errors of the store.
DomainError(r) ==
    \/ r = IdIsMandatory
    \/ \E i \in AllIds : r \in {NotFound(i), AlreadyExists(i)}

\* C20: a create, update, delete, archive or restore that returns NotFound,
\* AlreadyExists or IdIsMandatory leaves both directories as they were;
\* update(i, r) and archive(i) return NotFound(i) and change nothing when
\* i has an archived file only.
C20_DomainErrorsChangeNothing ==
    [][/\ (/\ call'.op \in {"create", "update", "delete", "archive", "restore"}
           /\ DomainError(result')) => fs' = fs
       /\ (/\ call'.op \in {"update", "archive"}
           /\ ~Active(call'.polar_id)
           /\ Archived(call'.polar_id)) =>
                /\ result' = NotFound(call'.polar_id)
                /\ fs' = fs]_vars

\* C20 witness: an update of an id that has an archived file only was
\* refused with NotFound.
C20_Witness ==
    /\ call.op = "update"
    /\ result = NotFound(call.polar_id)
    /\ Archived(call.polar_id)
    /\ ~Active(call.polar_id)

\* C18: a create that passed its existence test writes and returns Ok
\* whatever another create did in between, so of two overlapping creates
\* of an id both succeed and the file holds the record of the one that
\* wrote last; a create that starts when the file exists returns
\* AlreadyExists and changes nothing.
C18_CreateIsCheckThenWrite ==
    [][/\ \A t \in Threads :
            (pending[t].op = "create" /\ pending'[t] = Idle) =>
                LET i == pending[t].polar.id[1]
                IN  /\ call' = [op |-> "create", polar |-> pending[t].polar]
                    /\ result' = Ok
                    /\ fs'.polars_dir[FileName(i)] = Serialize(pending[t].polar)
                    /\ Others(fs', "polars_dir", i) = Others(fs, "polars_dir", i)
       /\ (call'.op = "create" /\ pending' = pending /\ call'.polar.id # None) =>
                /\ Active(call'.polar.id[1])
                /\ result' = AlreadyExists(call'.polar.id[1])
                /\ fs' = fs
       /\ \A t \in Threads :
            (pending[t] = Idle /\ pending'[t] # Idle) =>
                /\ pending'[t].op = "create"
                /\ ~Active(pending'[t].polar.id[1])
                /\ fs' = fs]_vars

\* C18 witness: a create returned Ok after writing over the file that
\* another create, which passed the test at the same time, had written.
C18_Witness ==
    /\ call.op = "create"
    /\ result = Ok
    /\ race = "overwrote"
    /\ fs.polars_dir[FileName(call.polar.id[1])] = Serialize(call.polar)
    /\ \A t \in Threads : pending[t] = Idle

\* The update of handler t is between the removal of file i and the write
\* of file j, j # i.
Renaming(t) ==
    /\ pending[t].op = "update"
    /\ pending[t].path # PolarsPath(pending[t].polar_id)

\* C19: update(i, r) with r.id = j # i removes the active file i in a step
\* of its own, before file j is written; until the write a get of i, and of
\* j when j had no file, returns the not-found signal; and a write that
\* fails returns the failure and leaves the files as they are, file i
\* staying removed.
C19_UpdateRemovesThenWrites ==
    [][/\ \A t \in Threads :
            (pending[t] = Idle /\ pending'[t] # Idle
                /\ pending'[t].polar.id \notin {None, Some(pending'[t].polar_id)}) =>
                /\ Active(pending'[t].polar_id)
                /\ fs'.polars_dir = Others(fs, "polars_dir", pending'[t].polar_id)
                /\ fs'.archived_dir = fs.archived_dir
                /\ pending'[t].path = PolarsPath(pending'[t].polar.id[1])
       /\ \A t \in Threads :
            (Renaming(t) /\ call'.op = "get" /\ pending' = pending
                /\ ~Active(call'.polar_id) /\ ~Archived(call'.polar_id)) =>
                result' = Missing
       /\ \A t \in Threads :
            (Renaming(t) /\ pending'[t] = Idle) =>
                /\ call' = [op |-> "update", polar_id |-> pending[t].polar_id,
                            polar |-> pending[t].polar]
                /\ IF HasSeparator(pending[t].path.name)
                   THEN result' = IoError /\ fs' = fs
                   ELSE /\ result' = Ok
                        /\ fs'.polars_dir[pending[t].path.name]
                                = Serialize(pending[t].polar)]_vars

\* C19 witness: while an update from id i to another id has removed file i
\* and not yet written the other, a get of i returned the not-found signal
\* and neither file exists.
C19_Witness ==
    \E t \in Threads :
        /\ Renaming(t)
        /\ call = [op |-> "get", polar_id |-> pending[t].polar_id]
        /\ result = Missing
        /\ ~Exists(fs, pending[t].path)
        /\ pending[t].polar.id[1] \in Ids

====
